---- MODULE Spec2Model ----
(***************************************************************************)
(* ThreadRunner (src/thread_runner.py): run_function / run_functions spawn *)
(* one thread per callable, every thread runs _run_function_in_thread and  *)
(* puts its result or its caught exception on a Queue, the caller joins    *)
(* the threads and then reads the Queue.                                   *)
(***************************************************************************)
EXTENDS Integers, Sequences, FiniteSets, TLC

\* Largest number of callables handed to one run_functions call.
MaxN == 2

\* Caller threads. Under Spec only t1 makes a call; t2 stays "off".
Callers == {"t1", "t2"}

Workers == 1..MaxN

(***************************************************************************)
(* Python objects: a class, a label and (for a list) the items.            *)
(***************************************************************************)
Obj(cls, v) == [cls |-> cls, v |-> v, items |-> << >>]

None == Obj("NoneType", "None")

\* A list object, as built by `results: List[Any] = []` and append.
List(s) == [cls |-> "list", v |-> "list", items |-> s]

\* TypeError raised by Python's argument binding ("got multiple values for argument").
TypeErrorObj == Obj("Exception", "TypeError")

\* isinstance(result, Exception): true of Exception and its subclasses, false of
\* objects that are only BaseException (SystemExit, KeyboardInterrupt, CancelledError).
IsException(o) == o.cls = "Exception"

\* What `except Exception` catches of a raised object.
CaughtByExceptException(o) == o.cls = "Exception"

(***************************************************************************)
(* Inputs: callables and the shared arguments.                             *)
(***************************************************************************)
Ret(o) == [type |-> "return", obj |-> o]

Raise(o) == [type |-> "raise", obj |-> o]

\* What a callable's body does when it runs to its end.
Behaviours ==
    { Ret(Obj("int", "1")), Ret(Obj("int", "2")),
      Ret(Obj("Exception", "ValueError")),
      Raise(Obj("Exception", "ZeroDivisionError")),
      Raise(Obj("Exception", "StopIteration")),
      Raise(Obj("BaseException", "SystemExit")) }

\* A callable: a plain function ("direct") or an async def ("suspendable").
Callables == [mode : {"direct", "suspendable"}, beh : Behaviours]

\* Positional arguments and keyword arguments (a set of <<key, value>> pairs).
ArgChoices ==
    { [args |-> << >>,     kwargs |-> {}],
      [args |-> << "a" >>, kwargs |-> {<<"x", "b">>}],
      [args |-> << "a" >>, kwargs |-> {<<"result_queue", "b">>}],
      [args |-> << >>,     kwargs |-> {<<"function", "b">>}] }

Keys(kw) == {p[1] : p \in kw}

\* Lists of at most MaxN callables.
CallableLists == UNION {[1..n -> Callables] : n \in 0..MaxN}

(***************************************************************************)
(* Argument binding.                                                       *)
(***************************************************************************)
\* Parameter names of run_function(cls, function, *args, **kwargs).
RunFunctionParams == {"cls", "function"}

\* Parameter names of run_functions(cls, functions, *args, **kwargs).
RunFunctionsParams == {"cls", "functions"}

\* Parameter names of _run_function_in_thread(cls, function, result_queue, *args, **kwargs).
TargetParams == {"cls", "function", "result_queue"}

\* Python raises TypeError when a keyword argument names a parameter that is
\* already bound positionally.
BindingFails(params, a) == Keys(a.kwargs) \cap params # {}

\* Thread(target=..., args=(function, result_queue, *args), kwargs=kwargs):
\* what Thread.run passes to the target.
ThreadArgs(a) == [args |-> << "function", "result_queue" >> \o a.args, kwargs |-> a.kwargs]

\* What _run_function_in_thread binds to *args and **kwargs and passes on in
\* function(*args, **kwargs).
ForwardedArgs(ta) == [args |-> SubSeq(ta.args, 3, Len(ta.args)), kwargs |-> ta.kwargs]

(***************************************************************************)
(* The body of the try block of _run_function_in_thread.                   *)
(***************************************************************************)
\* asyncio.iscoroutinefunction(func=function)
iscoroutinefunction(f) == f.mode = "suspendable"

\* The coroutine object an async def returns when called: its body has not run.
Coroutine(beh) == [cls |-> "coroutine", v |-> beh.type, items |-> << beh.obj >>]

\* function(*args, **kwargs)
CallFunction(f, a) == IF f.mode = "direct" THEN f.beh ELSE Ret(Coroutine(f.beh))

\* What running the body of a coroutine to its end gives. Python turns a
\* StopIteration raised inside a coroutine into a RuntimeError (PEP 479).
CoroutineResult(co) ==
    IF co.v = "raise" /\ co.items[1] = Obj("Exception", "StopIteration")
    THEN Raise(Obj("Exception", "RuntimeError"))
    ELSE [type |-> co.v, obj |-> co.items[1]]

\* loop.run_until_complete(future=...): drives the coroutine to its end and
\* returns its result or raises its exception.
run_until_complete(co) == CoroutineResult(co)

\* WorkerBody without the event loop: the coroutine object itself is the result.
WorkerBody_NotDriven(f, a) == CallFunction(f, a)

\* Lines 53-72: the result of the callable, or the exception it raised.
WorkerBody(f, a) ==
    IF iscoroutinefunction(f)
    THEN LET r == CallFunction(f, a)
         IN  IF r.type = "raise" THEN r ELSE run_until_complete(r.obj)
    ELSE CallFunction(f, a)

(***************************************************************************)
(* State.                                                                  *)
(***************************************************************************)
VARIABLES
    pc,          \* position of each caller thread
    kind,        \* "one" (run_function), "many" (run_functions) or "none"
    functions,   \* the callables of the call, in submission order
    argv,        \* the shared arguments of the call
    wpc,         \* state of each worker thread of the call
    wres,        \* the exception `e` a worker holds between logging and put
    result_queue, \* the Queue of the call
    enq,         \* history: every put on result_queue, in order
    results,     \* the list `results` of run_functions
    joined,      \* number of threads the caller has joined
    outcome,     \* how the call ended: a returned object or a raised exception
    log,         \* the messages of the call given to cls.logger, in order
    invocations  \* history: the arguments of every invocation of each callable

vars == << pc, kind, functions, argv, wpc, wres, result_queue, enq, results, joined, outcome, log, invocations >>

Pending == [type |-> "pending", obj |-> None]

\* LogEvent of a logger call that logs everything at info level.
LogEvent_AllInfo(level, site, msg, o) == [level |-> "info", site |-> site, msg |-> msg, obj |-> o]

LogEvent(level, site, msg, o) == [level |-> level, site |-> site, msg |-> msg, obj |-> o]

\* A thread whose run() has ended, normally or by an uncaught exception.
Terminated == {"succeeded", "failed", "died"}

InitWith(active) ==
    /\ kind = [d \in Callers |-> "none"]
    /\ functions = [d \in Callers |-> << >>]
    /\ argv = [d \in Callers |-> [args |-> << >>, kwargs |-> {}]]
    /\ wpc = [d \in Callers |-> [i \in Workers |-> "none"]]
    /\ wres = [d \in Callers |-> [i \in Workers |-> None]]
    /\ result_queue = [d \in Callers |-> << >>]
    /\ enq = [d \in Callers |-> << >>]
    /\ results = [d \in Callers |-> << >>]
    /\ joined = [d \in Callers |-> 0]
    /\ outcome = [d \in Callers |-> Pending]
    /\ log = [d \in Callers |-> << >>]
    /\ invocations = [d \in Callers |-> [i \in Workers |-> << >>]]
    /\ pc = [d \in Callers |-> IF d \in active THEN "idle" ELSE "off"]

\* One caller thread makes one call.
Init == InitWith({"t1"})

(***************************************************************************)
(* The caller: run_function and run_functions.                             *)
(***************************************************************************)
\* thread.start()
StartWorker(c, i) == wpc' = [wpc EXCEPT ![c][i] = "running"]

\* JoinReturns of a join that does not wait.
JoinReturns_NoWait(c, i) == TRUE

\* thread.join() returns once the thread has terminated.
JoinReturns(c, i) == wpc[c][i] \in Terminated

\* ReturnedAfterExcept of an except block that returns what was collected so far.
ReturnedAfterExcept_Partial(c) == List(results[c])

\* What the call returns after its except block: the function falls off its end.
ReturnedAfterExcept(c) == None

\* Lines 82-123: the call of run_function up to thread.start().
RunFunctionWith(c, F, A) ==
    /\ pc[c] = "idle"
    /\ \E f \in F, a \in A :
        /\ kind' = [kind EXCEPT ![c] = "one"]
        /\ functions' = [functions EXCEPT ![c] = << f >>]
        /\ argv' = [argv EXCEPT ![c] = a]
        /\ IF BindingFails(RunFunctionParams, a)
           THEN /\ outcome' = [outcome EXCEPT ![c] = Raise(TypeErrorObj)]
                /\ pc' = [pc EXCEPT ![c] = "done"]
                /\ UNCHANGED << wpc, log >>
           ELSE /\ log' = [log EXCEPT ![c] = Append(@, LogEvent("info", "run_function", "start", None))]
                /\ StartWorker(c, 1)
                /\ pc' = [pc EXCEPT ![c] = "join"]
                /\ UNCHANGED outcome
    /\ UNCHANGED << wres, result_queue, enq, results, joined, invocations >>

RunFunction(c) == RunFunctionWith(c, Callables, ArgChoices)

\* Lines 153-187: the call of run_functions up to the loop that starts the threads.
RunFunctionsWith(c, L, A) ==
    /\ pc[c] = "idle"
    /\ \E fs \in L, a \in A :
        /\ kind' = [kind EXCEPT ![c] = "many"]
        /\ functions' = [functions EXCEPT ![c] = fs]
        /\ argv' = [argv EXCEPT ![c] = a]
        /\ IF BindingFails(RunFunctionsParams, a)
           THEN /\ outcome' = [outcome EXCEPT ![c] = Raise(TypeErrorObj)]
                /\ pc' = [pc EXCEPT ![c] = "done"]
                /\ UNCHANGED log
           ELSE /\ log' = [log EXCEPT ![c] = Append(@, LogEvent("info", "run_functions", "start", None))]
                /\ pc' = [pc EXCEPT ![c] = IF Len(fs) = 0 THEN "drain" ELSE "spawn"]
                /\ UNCHANGED outcome
    /\ UNCHANGED << wpc, wres, result_queue, enq, results, joined, invocations >>

RunFunctions(c) == RunFunctionsWith(c, CallableLists, ArgChoices)

\* Number of threads of the call started so far.
Spawned(c) == Cardinality({i \in Workers : wpc[c][i] # "none"})

\* Lines 190-201: one iteration of the loop that creates and starts a thread.
StartThread(c) ==
    /\ pc[c] = "spawn"
    /\ LET i == Spawned(c) + 1
       IN  /\ StartWorker(c, i)
           /\ pc' = [pc EXCEPT ![c] = IF i = Len(functions[c]) THEN "join" ELSE "spawn"]
    /\ UNCHANGED << kind, functions, argv, wres, result_queue, enq, results, joined, outcome, log, invocations >>

\* Line 126, and lines 204-205: one thread.join().
JoinThread(c) ==
    /\ pc[c] = "join"
    /\ LET i == joined[c] + 1
       IN  /\ JoinReturns(c, i)
           /\ joined' = [joined EXCEPT ![c] = i]
           /\ pc' = [pc EXCEPT ![c] =
                        IF i < Len(functions[c]) THEN "join"
                        ELSE IF kind[c] = "one" THEN "get" ELSE "drain"]
    /\ UNCHANGED << kind, functions, argv, wpc, wres, result_queue, enq, results, outcome, log, invocations >>

\* Lines 129-150: result_queue.get() blocks until an item is there; an item that
\* is an Exception is raised, caught by the except block and logged, and the
\* call returns None; any other item is returned.
GetResult(c) ==
    /\ pc[c] = "get"
    /\ result_queue[c] # << >>
    /\ LET result == Head(result_queue[c])
       IN  /\ result_queue' = [result_queue EXCEPT ![c] = Tail(@)]
           /\ IF IsException(result)
              THEN /\ log' = [log EXCEPT ![c] = Append(@, LogEvent("error", "run_function", "caught", result))]
                   /\ outcome' = [outcome EXCEPT ![c] = Ret(ReturnedAfterExcept(c))]
              ELSE /\ log' = [log EXCEPT ![c] = Append(@, LogEvent("info", "run_function", "finish", None))]
                   /\ outcome' = [outcome EXCEPT ![c] = Ret(result)]
    /\ pc' = [pc EXCEPT ![c] = "done"]
    /\ UNCHANGED << kind, functions, argv, wpc, wres, enq, results, joined, invocations >>

\* empty of a loop test that stops one item early.
empty_OneLeft(q) == Len(q) <= 1

\* result_queue.empty()
empty(q) == q = << >>

\* Lines 208-235: one iteration of `while not result_queue.empty()`, or the end
\* of the loop. An item that is an Exception is raised, caught and logged, and
\* the call returns None.
DrainQueue(c) ==
    /\ pc[c] = "drain"
    /\ IF empty(result_queue[c])
       THEN /\ log' = [log EXCEPT ![c] = Append(@, LogEvent("info", "run_functions", "finish", None))]
            /\ outcome' = [outcome EXCEPT ![c] = Ret(List(results[c]))]
            /\ pc' = [pc EXCEPT ![c] = "done"]
            /\ UNCHANGED << result_queue, results >>
       ELSE LET result == Head(result_queue[c])
            IN  /\ result_queue' = [result_queue EXCEPT ![c] = Tail(@)]
                /\ IF IsException(result)
                   THEN /\ log' = [log EXCEPT ![c] = Append(@, LogEvent("error", "run_functions", "caught", result))]
                        /\ outcome' = [outcome EXCEPT ![c] = Ret(ReturnedAfterExcept(c))]
                        /\ pc' = [pc EXCEPT ![c] = "done"]
                        /\ UNCHANGED results
                   ELSE /\ results' = [results EXCEPT ![c] = Append(@, result)]
                        /\ UNCHANGED << log, outcome, pc >>
    /\ UNCHANGED << kind, functions, argv, wpc, wres, enq, joined, invocations >>

(***************************************************************************)
(* The worker thread: Thread.run calling _run_function_in_thread.          *)
(***************************************************************************)
\* Put on a queue that all calls share instead of the queue of the call.
Put_SharedQueue(c, i, item, tag) ==
    /\ result_queue' = [result_queue EXCEPT !["t1"] = Append(@, item)]
    /\ enq' = [enq EXCEPT !["t1"] = Append(@, [src |-> i, tag |-> tag, val |-> item])]

\* result_queue.put(item); `tag` records which put it is (line 74 or line 79).
Put(c, i, item, tag) ==
    /\ result_queue' = [result_queue EXCEPT ![c] = Append(@, item)]
    /\ enq' = [enq EXCEPT ![c] = Append(@, [src |-> i, tag |-> tag, val |-> item])]

\* Lines 26-78: the thread binds the target's arguments, runs the callable and
\* either puts its result (line 74), or catches and logs its exception (76-78),
\* or dies of an exception that `except Exception` does not catch.
RunFunctionInThread(c, i) ==
    /\ wpc[c][i] = "running"
    /\ IF BindingFails(TargetParams, ThreadArgs(argv[c]))
       THEN /\ wpc' = [wpc EXCEPT ![c][i] = "died"]
            /\ UNCHANGED << wres, result_queue, enq, log, invocations >>
       ELSE LET a == ForwardedArgs(ThreadArgs(argv[c]))
                r == WorkerBody(functions[c][i], a)
            IN  /\ invocations' = [invocations EXCEPT ![c][i] = Append(@, a)]
                /\ IF r.type = "return"
                   THEN /\ Put(c, i, r.obj, "Value")
                        /\ wpc' = [wpc EXCEPT ![c][i] = "succeeded"]
                        /\ UNCHANGED << wres, log >>
                   ELSE IF CaughtByExceptException(r.obj)
                   THEN /\ log' = [log EXCEPT ![c] = Append(@, LogEvent("error", "_run_function_in_thread", "caught", r.obj))]
                        /\ wres' = [wres EXCEPT ![c][i] = r.obj]
                        /\ wpc' = [wpc EXCEPT ![c][i] = "caught"]
                        /\ UNCHANGED << result_queue, enq >>
                   ELSE /\ wpc' = [wpc EXCEPT ![c][i] = "died"]
                        /\ UNCHANGED << wres, result_queue, enq, log >>
    /\ UNCHANGED << pc, kind, functions, argv, results, joined, outcome >>

\* Line 79: result_queue.put(e), after which the thread ends.
PutException(c, i) ==
    /\ wpc[c][i] = "caught"
    /\ Put(c, i, wres[c][i], "Failure")
    /\ wpc' = [wpc EXCEPT ![c][i] = "failed"]
    /\ UNCHANGED << pc, kind, functions, argv, wres, results, joined, outcome, log, invocations >>

Next ==
    \/ \E c \in Callers : RunFunction(c)
    \/ \E c \in Callers : RunFunctions(c)
    \/ \E c \in Callers : StartThread(c)
    \/ \E c \in Callers : JoinThread(c)
    \/ \E c \in Callers : GetResult(c)
    \/ \E c \in Callers : DrainQueue(c)
    \/ \E c \in Callers, i \in Workers : RunFunctionInThread(c, i)
    \/ \E c \in Callers, i \in Workers : PutException(c, i)

Spec == Init /\ [][Next]_vars

(***************************************************************************)
(* Two caller threads that call concurrently, with fewer inputs.           *)
(***************************************************************************)
\* Each caller submits callables that return a value of its own, or raise.
ConcurrentCallables(c) ==
    {f \in Callables :
        /\ f.mode = "direct"
        /\ f.beh \in {Ret(Obj("int", IF c = "t1" THEN "1" ELSE "2")),
                      Raise(Obj("Exception", "ZeroDivisionError"))}}

ConcurrentArgChoices == {[args |-> << >>, kwargs |-> {}]}

ConcurrentCallableLists(c) == UNION {[1..n -> ConcurrentCallables(c)] : n \in 0..MaxN}

RunFunctionConcurrent(c) == RunFunctionWith(c, ConcurrentCallables(c), ConcurrentArgChoices)

RunFunctionsConcurrent(c) == RunFunctionsWith(c, ConcurrentCallableLists(c), ConcurrentArgChoices)

InitConcurrent == InitWith(Callers)

NextConcurrent ==
    \/ \E c \in Callers : RunFunctionConcurrent(c)
    \/ \E c \in Callers : RunFunctionsConcurrent(c)
    \/ \E c \in Callers : StartThread(c)
    \/ \E c \in Callers : JoinThread(c)
    \/ \E c \in Callers : GetResult(c)
    \/ \E c \in Callers : DrainQueue(c)
    \/ \E c \in Callers, i \in Workers : RunFunctionInThread(c, i)
    \/ \E c \in Callers, i \in Workers : PutException(c, i)

SpecConcurrent == InitConcurrent /\ [][NextConcurrent]_vars

(***************************************************************************)
(* Vocabulary of the properties.                                           *)
(***************************************************************************)
N(c) == Len(functions[c])

Units(c) == 1..N(c)

Range(s) == {s[k] : k \in 1..Len(s)}

\* The callable of unit i was invoked.
Invoked(c, i) == i \in Units(c) /\ invocations[c][i] # << >>

\* The callable of unit i was invoked and raised a fault.
Faulted(c, i) == Invoked(c, i) /\ functions[c][i].beh.type = "raise"

\* The callable of unit i was invoked and returned a value.
Returned(c, i) == Invoked(c, i) /\ functions[c][i].beh.type = "return"

\* The objects a finished call hands to its caller.
HandedBack(c) ==
    IF outcome[c].type = "return" THEN {outcome[c].obj} \cup Range(outcome[c].obj.items) ELSE {}

\* Number of items the caller has taken from result_queue.
Dequeued(c) == Len(enq[c]) - Len(result_queue[c])

\* C1: when the callable given to run_function raises fault F, the call ends
\* in an error carrying F and does not complete normally.
C1_RunOnePropagatesFault ==
    \A c \in Callers :
        (pc[c] = "done" /\ kind[c] = "one" /\ Faulted(c, 1))
            => outcome[c] = Raise(functions[c][1].beh.obj)

\* C2: when exactly one callable of a run_functions call raises a fault and
\* the others return, the call ends in an error. Stated for the faults that are
\* Exceptions, the ones the worker captures.
C2_RunManyPropagatesFault ==
    \A c \in Callers :
        (/\ pc[c] = "done" /\ kind[c] = "many"
         /\ \A i \in Units(c) : Invoked(c, i)
         /\ Cardinality({i \in Units(c) : Faulted(c, i)}) = 1
         /\ \A i \in Units(c) : Faulted(c, i) => IsException(functions[c][i].beh.obj))
            => outcome[c].type = "raise"

\* C3: when a worker of a run_functions call has put a Failure on the result_queue,
\* the finished call hands back none of the values its other workers put.
C3_NoPartialResults ==
    \A c \in Callers :
        (/\ pc[c] = "done" /\ kind[c] = "many"
         /\ \E k \in 1..Len(enq[c]) : enq[c][k].tag = "Failure")
            => /\ outcome[c].type # "pending"
               /\ \A k \in 1..Len(enq[c]) :
                    enq[c][k].tag = "Value" => enq[c][k].val \notin HandedBack(c)

\* A finished run_functions call that had collected a value before it met a Failure.
C3_Witness ==
    \E c \in Callers :
        /\ pc[c] = "done" /\ kind[c] = "many"
        /\ results[c] # << >>
        /\ \E j, k \in 1..Len(enq[c]) :
            j < k /\ enq[c][j].tag = "Value" /\ enq[c][k].tag = "Failure"

\* C4: when the callable given to run_function returns V, the call returns V,
\* whatever V is.
C4_RunOneReturnsValue ==
    \A c \in Callers :
        (pc[c] = "done" /\ kind[c] = "one" /\ Returned(c, 1))
            => outcome[c] = Ret(functions[c][1].beh.obj)

\* Number of positions of sequence s that hold o.
Count(s, o) == Cardinality({k \in 1..Len(s) : s[k] = o})

\* The values the callables of the call return, in submission order.
SubmittedValues(c) == [i \in Units(c) |-> functions[c][i].beh.obj]

\* C5: when every callable of a run_functions call returns a value, the call
\* returns a list of length N that holds exactly the multiset of those values.
C5_RunManyReturnsAllValues ==
    \A c \in Callers :
        (/\ pc[c] = "done" /\ kind[c] = "many"
         /\ \A i \in Units(c) : Returned(c, i))
            => /\ outcome[c].type = "return"
               /\ outcome[c].obj.cls = "list"
               /\ Len(outcome[c].obj.items) = N(c)
               /\ \A o \in Range(SubmittedValues(c)) :
                    Count(outcome[c].obj.items, o) = Count(SubmittedValues(c), o)

\* C6: the caller takes nothing from result_queue and does not return while a
\* thread it started is still running.
C6_JoinCompleteness ==
    \A c \in Callers :
        (Dequeued(c) > 0 \/ pc[c] = "done")
            => \A i \in Workers : wpc[c][i] \in Terminated \cup {"none"}

\* The caller has joined a thread and waits for another one that still runs,
\* with an outcome already on the result_queue.
C6_Witness ==
    \E c \in Callers :
        /\ pc[c] = "join" /\ joined[c] >= 1
        /\ result_queue[c] # << >>
        /\ \E i \in Workers : wpc[c][i] \in {"running", "caught"}

\* The exceptions the caller of run_functions logged in its except block.
SelectedErrors(c) ==
    SelectSeq(log[c], LAMBDA e : e.level = "error" /\ e.site = "run_functions")

\* C7: when several workers of a run_functions call fail, exactly one Failure
\* is selected, and it is the Failure that was put on the result_queue first.
C7_EarliestFailureSelected ==
    \A c \in Callers :
        (/\ pc[c] = "done" /\ kind[c] = "many"
         /\ Cardinality({i \in Units(c) : Faulted(c, i)}) >= 2)
            => /\ Len(SelectedErrors(c)) = 1
               /\ Dequeued(c) >= 1
               /\ enq[c][Dequeued(c)].tag = "Failure"
               /\ \A j \in 1..(Dequeued(c) - 1) : enq[c][j].tag # "Failure"
               /\ SelectedErrors(c)[1].obj = enq[c][Dequeued(c)].val

\* C8: when every worker of a run_functions call succeeded, the call returns
\* the values in the order in which they were put on the result_queue.
C8_ValuesInEnqueueOrder ==
    \A c \in Callers :
        (/\ pc[c] = "done" /\ kind[c] = "many"
         /\ \A i \in Units(c) : wpc[c][i] = "succeeded")
            => outcome[c] = Ret(List([k \in 1..Len(enq[c]) |-> enq[c][k].val]))

\* The messages of the call's log that come from `site`.
LogOf(c, site) == SelectSeq(log[c], LAMBDA e : e.site = site)

\* What the direct twins of the call's callables would have put on the result_queue,
\* in the order of the puts.
TwinQueue(c) == [k \in 1..Len(enq[c]) |-> functions[c][enq[c][k].src].beh.obj]

\* The first Exception of a sequence that holds one.
FirstException(s) ==
    s[CHOOSE k \in 1..Len(s) : IsException(s[k]) /\ \A j \in 1..(k - 1) : ~IsException(s[j])]

HasException(s) == \E k \in 1..Len(s) : IsException(s[k])

\* What the call returns when its result_queue holds the items of the direct twins.
TwinOutcome(c) ==
    IF kind[c] = "one"
    THEN IF IsException(TwinQueue(c)[1]) THEN Ret(None) ELSE Ret(TwinQueue(c)[1])
    ELSE IF HasException(TwinQueue(c)) THEN Ret(None) ELSE Ret(List(TwinQueue(c)))

\* The caller's log messages when its result_queue holds the items of the direct twins.
TwinCallerLog(c) ==
    LET site == IF kind[c] = "one" THEN "run_function" ELSE "run_functions"
        seen == IF kind[c] = "one" THEN SubSeq(TwinQueue(c), 1, 1) ELSE TwinQueue(c)
    IN  << LogEvent("info", site, "start", None) >> \o
        (IF HasException(seen)
         THEN << LogEvent("error", site, "caught", FirstException(seen)) >>
         ELSE << LogEvent("info", site, "finish", None) >>)

\* Unit i, once invoked, is where its direct twin would be: a returned value is
\* on the result_queue as a Value, a raised Exception is logged and then on the result_queue
\* as a Failure, any other fault ends the thread with nothing on the result_queue.
WorkerAsTwin(c, i) ==
    LET b == functions[c][i].beh
    IN  IF b.type = "return"
        THEN /\ wpc[c][i] = "succeeded"
             /\ \E k \in 1..Len(enq[c]) : enq[c][k] = [src |-> i, tag |-> "Value", val |-> b.obj]
        ELSE IF IsException(b.obj)
        THEN /\ wpc[c][i] \in {"caught", "failed"}
             /\ wpc[c][i] = "caught" => wres[c][i] = b.obj
             /\ wpc[c][i] = "failed" =>
                    \E k \in 1..Len(enq[c]) : enq[c][k] = [src |-> i, tag |-> "Failure", val |-> b.obj]
        ELSE /\ wpc[c][i] = "died"
             /\ \A k \in 1..Len(enq[c]) : enq[c][k].src # i

\* The workers' log messages are those of the direct twins: one error message
\* per captured Exception, carrying it.
WorkerLogAsTwins(c) ==
    LET w == LogOf(c, "_run_function_in_thread")
        objs == {w[k].obj : k \in 1..Len(w)} \cup {functions[c][i].beh.obj : i \in Units(c)}
    IN  /\ \A k \in 1..Len(w) : w[k].level = "error"
        /\ \A o \in objs :
            Cardinality({k \in 1..Len(w) : w[k].obj = o})
                = Cardinality({i \in Units(c) : Faulted(c, i) /\ IsException(o) /\ functions[c][i].beh.obj = o})

\* The call shows its caller what it would show with every callable replaced by
\* its direct twin: the workers' outcomes, the log and the result.
AsDirectTwins(c) ==
    /\ \A i \in Units(c) : Invoked(c, i) => WorkerAsTwin(c, i)
    /\ WorkerLogAsTwins(c)
    /\ (pc[c] = "done" /\ outcome[c].type = "return") =>
            /\ outcome[c] = TwinOutcome(c)
            /\ LogOf(c, IF kind[c] = "one" THEN "run_function" ELSE "run_functions") = TwinCallerLog(c)

RaisesStopIteration(f) == f.beh = Raise(Obj("Exception", "StopIteration"))

\* C9 as stated: for every value and every fault, a suspendable callable and a
\* direct one with the same logic give the same outcome, result and log.
C9_ModeTransparencyEveryFault == \A c \in Callers : AsDirectTwins(c)

\* C9 amended: the same, for every value and every fault other than
\* StopIteration (or a subclass), which a coroutine turns into a RuntimeError.
C9_ModeTransparency ==
    \A c \in Callers :
        (\A i \in Units(c) : ~RaisesStopIteration(functions[c][i])) => AsDirectTwins(c)

\* A finished batch of a direct and a suspendable callable that raise the same Exception.
C9_Witness ==
    \E c \in Callers :
        /\ pc[c] = "done" /\ kind[c] = "many" /\ N(c) = 2
        /\ functions[c][1].mode = "direct" /\ functions[c][2].mode = "suspendable"
        /\ functions[c][1].beh = functions[c][2].beh
        /\ functions[c][1].beh = Raise(Obj("Exception", "ZeroDivisionError"))
        /\ wpc[c][1] = "failed" /\ wpc[c][2] = "failed"

\* C10: every callable of a call is invoked, once, with exactly the positional
\* and named arguments given to run_function or run_functions, whatever the
\* names of the named arguments.
C10_ArgumentsForwarded ==
    \A c \in Callers :
        /\ pc[c] = "done" => \A i \in Units(c) : invocations[c][i] = << argv[c] >>
        /\ \A i \in Units(c) : wpc[c][i] \in Terminated => invocations[c][i] = << argv[c] >>

\* The puts of unit i on the queue of its call.
PutsOf(c, i) == {k \in 1..Len(enq[c]) : enq[c][k].src = i}

\* C11: a worker whose callable ran and whose thread has terminated has put
\* exactly one item on the queue, however the callable ended.
C11_OneOutcomePerUnit ==
    \A c \in Callers : \A i \in Units(c) :
        (Invoked(c, i) /\ wpc[c][i] \in Terminated) => Cardinality(PutsOf(c, i)) = 1

\* C12: when run_functions starts draining, after the last join, the queue
\* holds as many items as callables were submitted.
C12_QueueCountAtDrain ==
    \A c \in Callers :
        (pc[c] = "drain" /\ Dequeued(c) = 0) => Len(result_queue[c]) = N(c)

\* C13: a fault raised in a worker is caught there and put on the queue as a
\* Failure carrying that fault; it does not escape the thread and gives no Value.
C13_FaultBecomesFailure ==
    \A c \in Callers : \A i \in Units(c) :
        (Faulted(c, i) /\ wpc[c][i] \in Terminated)
            => /\ wpc[c][i] = "failed"
               /\ \A k \in PutsOf(c, i) :
                    enq[c][k].tag = "Failure" /\ enq[c][k].val = functions[c][i].beh.obj
               /\ PutsOf(c, i) # {}

\* The error messages the caller logged in its except block.
CallerErrors(c) ==
    SelectSeq(log[c], LAMBDA e : e.level = "error" /\ e.site # "_run_function_in_thread")

\* C14: the caller takes a dequeued item for a Failure exactly when the worker
\* put it as a captured fault; what a callable returns is taken for a Value.
C14_FailureIffCaptured ==
    \A c \in Callers :
        (pc[c] = "done" /\ Dequeued(c) >= 1)
            => /\ (Len(CallerErrors(c)) = 1) <=> (enq[c][Dequeued(c)].tag = "Failure")
               /\ \A j \in 1..(Dequeued(c) - 1) : enq[c][j].tag = "Value"

\* The error-level messages of the call, in order.
ErrorLog(c) == SelectSeq(log[c], LAMBDA e : e.level = "error")

\* C15: a run_function call whose callable raises logs exactly two errors for
\* it, the worker's and then the caller's; a call whose callable succeeds logs
\* no error.
C15_DualLogging ==
    \A c \in Callers :
        (pc[c] = "done" /\ kind[c] = "one" /\ Invoked(c, 1))
            => IF functions[c][1].beh.type = "raise"
               THEN /\ Len(ErrorLog(c)) = 2
                    /\ ErrorLog(c)[1].site = "_run_function_in_thread"
                    /\ ErrorLog(c)[2].site = "run_function"
               ELSE ErrorLog(c) = << >>

\* The positions of the items of the call's queue history that are Exceptions.
ExceptionPuts(c) == {k \in 1..Len(enq[c]) : IsException(enq[c][k].val)}

\* C16 as stated: when a run_functions call has finished, with values or with
\* a failure, its queue is empty. Stated for the calls in which the only
\* Exceptions on the queue are captured faults.
C16_QueueEmptyWhenFinished ==
    \A c \in Callers :
        (/\ pc[c] = "done" /\ kind[c] = "many"
         /\ \A k \in ExceptionPuts(c) : enq[c][k].tag = "Failure")
            => result_queue[c] = << >>

\* C16 amended: a run_functions call that finishes with values has emptied its
\* queue; one that finishes on a failure has taken the items up to the first
\* Exception and has left the items put after it on the queue.
C16_DrainedUpToFirstFailure ==
    \A c \in Callers :
        (pc[c] = "done" /\ kind[c] = "many" /\ outcome[c].type = "return")
            => IF ExceptionPuts(c) = {}
               THEN result_queue[c] = << >> /\ outcome[c].obj.cls = "list"
               ELSE /\ \A k \in ExceptionPuts(c) : Dequeued(c) <= k
                    /\ Dequeued(c) \in ExceptionPuts(c)
                    /\ outcome[c].obj = None

\* A run_functions call that finished on a Failure and left a Value on its queue.
C16_Witness ==
    \E c \in Callers :
        /\ pc[c] = "done" /\ kind[c] = "many"
        /\ Dequeued(c) = 1 /\ enq[c][1].tag = "Failure"
        /\ Len(result_queue[c]) = 1 /\ enq[c][2].tag = "Value"

\* The info-level messages of the call, in order.
InfoLog(c) == SelectSeq(log[c], LAMBDA e : e.level = "info")

StartMessage == LogEvent("info", "run_function", "start", None)

FinishMessage == LogEvent("info", "run_function", "finish", None)

\* C17 as stated: a finished run_function call, whether its callable succeeded
\* or failed, has logged the start message and after it the completion
\* message. Stated for the calls in which the only Exceptions on the queue are
\* captured faults.
C17_StartAndCompletionAlways ==
    \A c \in Callers :
        (/\ pc[c] = "done" /\ kind[c] = "one" /\ Invoked(c, 1)
         /\ \A k \in ExceptionPuts(c) : enq[c][k].tag = "Failure")
            => InfoLog(c) = << StartMessage, FinishMessage >>

\* C17 amended: a run_function call that has run its body logged the start
\* message first; it logs the completion message, last, exactly when the item
\* it dequeued is not an Exception; a call that ends on a failure logs the
\* start message and an error but no completion message.
C17_CompletionOnlyOnSuccess ==
    \A c \in Callers :
        (pc[c] = "done" /\ kind[c] = "one" /\ outcome[c].type = "return")
            => /\ log[c][1] = StartMessage
               /\ IF IsException(enq[c][1].val)
                  THEN /\ InfoLog(c) = << StartMessage >>
                       /\ log[c][Len(log[c])].level = "error"
                       /\ log[c][Len(log[c])].site = "run_function"
                  ELSE /\ InfoLog(c) = << StartMessage, FinishMessage >>
                       /\ log[c][Len(log[c])] = FinishMessage

\* A finished run_function call whose callable raised an Exception.
C17_Witness ==
    \E c \in Callers :
        /\ pc[c] = "done" /\ kind[c] = "one"
        /\ Faulted(c, 1) /\ wpc[c][1] = "failed"
        /\ InfoLog(c) = << StartMessage >>

\* C18: every submitted callable is invoked exactly once per call: a worker
\* whose thread has ended has invoked its callable once, not zero times and not
\* twice.
C18_InvokedExactlyOnce ==
    \A c \in Callers : \A i \in Units(c) :
        wpc[c][i] \in Terminated => Len(invocations[c][i]) = 1

\* C19: run_function does not block on its queue once its worker has
\* terminated: when the caller reaches result_queue.get() after the join of a
\* worker whose callable has ended, an item is there to take.
C19_GetNeverBlocks ==
    \A c \in Callers :
        (pc[c] = "get" /\ Invoked(c, 1)) => result_queue[c] # << >>

\* The object the worker of unit i of call c gets from its callable.
ProducedBy(c, i) == WorkerBody(functions[c][i], ForwardedArgs(ThreadArgs(argv[c]))).obj

\* The items put on the queue of call c, in order.
EnqueuedValues(c) == [k \in 1..Len(enq[c]) |-> enq[c][k].val]

\* C20: with calls running concurrently from different caller threads, every
\* item on the queue of a call was put by a worker of that call, once, and is
\* what that worker's callable produced; the result and the selected failure of
\* a finished call are built from the items of its own queue only.
C20_CallsIsolated ==
    \A c \in Callers :
        /\ \A k \in 1..Len(enq[c]) :
            LET i == enq[c][k].src
            IN  /\ i \in Units(c)
                /\ wpc[c][i] \in {"succeeded", "failed"}
                /\ enq[c][k].val = ProducedBy(c, i)
                /\ Cardinality(PutsOf(c, i)) = 1
        /\ result_queue[c] = SubSeq(EnqueuedValues(c), Dequeued(c) + 1, Len(enq[c]))
        /\ \A k \in 1..Len(CallerErrors(c)) : CallerErrors(c)[k].obj \in Range(EnqueuedValues(c))
        /\ (pc[c] = "done" /\ outcome[c].type = "return") =>
                \/ outcome[c].obj = None
                \/ kind[c] = "one" /\ outcome[c].obj = EnqueuedValues(c)[1]
                \/ kind[c] = "many" /\ outcome[c].obj = List(EnqueuedValues(c))

\* One call has returned its values while the other call, begun meanwhile,
\* still has outcomes of its own workers on its queue.
C20_Witness ==
    /\ pc["t1"] = "done" /\ kind["t1"] = "many"
    /\ outcome["t1"].obj.cls = "list" /\ Len(outcome["t1"].obj.items) >= 1
    /\ pc["t2"] \in {"join", "drain"} /\ kind["t2"] = "many"
    /\ result_queue["t2"] # << >>

====
